---- MODULE Spec2Model ----
(***************************************************************************)
(* Model of authAPI/main.py: a FastAPI service that registers users in a   *)
(* SQL table, issues per-user-key HS256 bearer tokens, verifies them in    *)
(* two phases, activates accounts and reports the current user.            *)
(*                                                                         *)
(* Time is counted in ticks (TicksPerSecond ticks to the second) so that   *)
(* the truncation of "exp" to whole seconds done by jwt.encode is visible. *)
(* An HS256 signature is modelled as the pair of its key and the signed    *)
(* claims; a salted password hash as its salt and the salted digest.       *)
(***************************************************************************)
EXTENDS Integers, Sequences, FiniteSets, TLC

VARIABLES users, clock, resp, regPassword, workers

vars == <<users, clock, resp, regPassword, workers>>

(* ----------------------------- input domains --------------------------- *)

Usernames == {"alice", "bob"}
Emails == {"alice@x.com", "bob@x.com"}
Passwords == {"pw123", "hunter2"}
\* outcomes of the random generators
Salts == {"s1"}
SecretKeys == {"k1", "k2"}
ClientIds == {"AA", "BB"}

None == "none"

\* clock resolution and the instants at which the service is observed
TicksPerSecond == 2
MaxFrac == 1
MaxQuarters == 2

Second == TicksPerSecond
Minute == 60 * Second

ALGORITHM == "HS256"
ACCESS_TOKEN_EXPIRE_MINUTES == 30
DEFAULT_EXPIRE_MINUTES == 15

Instants == {q * 15 * Minute + f : q \in 0..MaxQuarters, f \in 0..MaxFrac}

\* timedelta(minutes=m), in ticks
timedelta(m) == m * Minute

\* expires_delta arguments tried on create_access_token: <<d>> is a timedelta of
\* d ticks, NoDelta the argument left out
NoDelta == <<>>
Deltas == {NoDelta} \cup
          {<<d>> : d \in {0 - timedelta(15), 0 - 1, 0, 1, timedelta(15), timedelta(30)}}

(* ------------------------------- passwords ----------------------------- *)

\* the bcrypt digest of a password under a salt
Digest(salt, password) == <<salt, password>>

get_password_hash(password, salt) ==
    [salt |-> salt, digest |-> Digest(salt, password)]

verify_password(plain_password, hashed_password) ==
    Digest(hashed_password.salt, plain_password) = hashed_password.digest

(* --------------------------------- store ------------------------------- *)

\* index of the row with this username, 0 when there is none
get_user(db, username) ==
    IF \E i \in 1..Len(db) : db[i].username = username
    THEN CHOOSE i \in 1..Len(db) :
            /\ db[i].username = username
            /\ \A j \in 1..(i - 1) : db[j].username # username
    ELSE 0

\* mutant: the password is not checked
authenticate_user_NoPassword(db, username, password) ==
    get_user(db, username)

\* 0 is the False of authenticate_user
authenticate_user(db, username, password) ==
    LET user == get_user(db, username)
    IN  IF user = 0 THEN 0
        ELSE IF ~verify_password(password, db[user].hashed_password) THEN 0
        ELSE user

\* mutant: client_id is not declared unique
UniqueViolation_NoClientId(db, row) ==
    \E i \in 1..Len(db) :
        \/ db[i].username = row.username
        \/ db[i].email = row.email
        \/ db[i].secret_key = row.secret_key

\* mutant: username is not declared unique
UniqueViolation_NoUsername(db, row) ==
    \E i \in 1..Len(db) :
        \/ db[i].email = row.email
        \/ db[i].secret_key = row.secret_key
        \/ db[i].client_id = row.client_id

\* the unique constraints of the users table, as checked by db.commit()
UniqueViolation(db, row) ==
    \E i \in 1..Len(db) :
        \/ db[i].username = row.username
        \/ db[i].email = row.email
        \/ db[i].secret_key = row.secret_key
        \/ db[i].client_id = row.client_id

\* mutant: the activated column defaults to True
UserModel_Activated(username, email, hashed_password, secret_key, client_id) ==
    [username |-> username, email |-> email, hashed_password |-> hashed_password,
     activated |-> TRUE, secret_key |-> secret_key, client_id |-> client_id]

\* a new row; activated is not passed and takes the column default
UserModel(username, email, hashed_password, secret_key, client_id) ==
    [username |-> username, email |-> email, hashed_password |-> hashed_password,
     activated |-> FALSE, secret_key |-> secret_key, client_id |-> client_id]

(* --------------------------------- tokens ------------------------------ *)

\* the exp claim is <<seconds>>, or NoExp when the token carries none
NoExp == <<>>

\* HMAC-SHA256 of the claims under a key
Sign(key, sub, exp) == [key |-> key, sub |-> sub, exp |-> exp]

NoSig == [key |-> None, sub |-> None, exp |-> NoExp]

\* jwt.encode: a datetime "exp" is cut to whole seconds
jwt_encode(sub, expire, key) ==
    LET exp == <<expire \div TicksPerSecond>>
    IN  [wellformed |-> TRUE, alg |-> ALGORITHM, sub |-> sub, exp |-> exp,
         sig |-> Sign(key, sub, exp)]

\* mutant: the token is signed with the subject instead of the secret key
create_access_token_WrongKey(sub, secret_key, expires_delta, now) ==
    LET expire ==
            IF expires_delta # NoDelta /\ expires_delta[1] # 0
            THEN now + expires_delta[1]
            ELSE now + timedelta(DEFAULT_EXPIRE_MINUTES)
    IN  jwt_encode(sub, expire, sub)

create_access_token(sub, secret_key, expires_delta, now) ==
    LET expire ==
            IF expires_delta # NoDelta /\ expires_delta[1] # 0
            THEN now + expires_delta[1]
            ELSE now + timedelta(DEFAULT_EXPIRE_MINUTES)
    IN  jwt_encode(sub, expire, secret_key)

\* mutant: the second decode does not verify the signature either
jwt_decode_ok_NoSignature(token, key, now) ==
    /\ token.wellformed
    /\ token.alg = ALGORITHM
    /\ (token.exp # NoExp => ~(token.exp[1] * TicksPerSecond <= now))

\* mutant: the second decode does not check the expiry
jwt_decode_ok_NoExpiry(token, key, now) ==
    /\ token.wellformed
    /\ token.alg = ALGORITHM
    /\ token.sig = Sign(key, token.sub, token.exp)

\* jwt.decode(token, key, algorithms=[ALGORITHM]) does not raise InvalidTokenError
jwt_decode_ok(token, key, now) ==
    /\ token.wellformed
    /\ token.alg = ALGORITHM
    /\ token.sig = Sign(key, token.sub, token.exp)
    /\ (token.exp # NoExp => ~(token.exp[1] * TicksPerSecond <= now))

\* 0 stands for the raised credentials_exception, otherwise the user's row
get_current_user(db, token, now) ==
    IF ~token.wellformed THEN 0
    ELSE IF token.sub = None THEN 0
    ELSE LET user == get_user(db, token.sub)
         IN  IF user = 0 THEN 0
             ELSE IF ~jwt_decode_ok(token, db[user].secret_key, now) THEN 0
             ELSE user

(* ------------------------------ token inputs --------------------------- *)

Malformed ==
    [wellformed |-> FALSE, alg |-> None, sub |-> None, exp |-> NoExp, sig |-> NoSig]

ExpClaims == {<<q * 15 * 60>> : q \in 1..(MaxQuarters + 1)}

\* tokens signed over their own claims
SignedTokens ==
    {[wellformed |-> TRUE, alg |-> ALGORITHM, sub |-> s, exp |-> e, sig |-> Sign(k, s, e)] :
        s \in Usernames, e \in ExpClaims \cup {NoExp}, k \in SecretKeys}

\* tokens whose sub was rewritten after signing
TamperedTokens ==
    {[wellformed |-> TRUE, alg |-> ALGORITHM, sub |-> s, exp |-> e, sig |-> Sign(k, o, e)] :
        s \in Usernames, o \in Usernames, e \in {NoExp}, k \in SecretKeys} \ SignedTokens

\* tokens with no sub claim
NoSubTokens ==
    {[wellformed |-> TRUE, alg |-> ALGORITHM, sub |-> None, exp |-> NoExp,
      sig |-> Sign(k, None, NoExp)] : k \in SecretKeys}

\* unsigned tokens (header alg "none")
UnsignedTokens ==
    {[wellformed |-> TRUE, alg |-> None, sub |-> s, exp |-> NoExp, sig |-> NoSig] :
        s \in Usernames}

Tokens == SignedTokens \cup TamperedTokens \cup NoSubTokens \cup UnsignedTokens \cup {Malformed}

(* -------------------------------- responses ---------------------------- *)

\* a request and its response; fields an operation does not use keep these values
Blank ==
    [op |-> None, status |-> 0, detail |-> None, exc |-> None, authenticate |-> None,
     \* the request
     username |-> None, email |-> None, password |-> None, reqtoken |-> Malformed,
     delta |-> NoDelta, at |-> 0,
     \* the response body
     user |-> None, user_email |-> None, activated |-> FALSE,
     secret_key |-> None, client_id |-> None,
     access_token |-> Malformed, token_type |-> None,
     isSuccessful |-> FALSE, message |-> None]

\* the HTTPException built by get_current_user
credentials_exception(r) ==
    [r EXCEPT !.status = 401, !.exc = "HTTPException",
              !.detail = "Could not validate credentials", !.authenticate = "Bearer"]

\* mutant: a sub that names no stored user is answered with 404
get_current_active_user_NotFound(r, db, token, now) ==
    LET current_user == get_current_user(db, token, now)
    IN  IF token.wellformed /\ token.sub # None /\ get_user(db, token.sub) = 0
        THEN [r EXCEPT !.status = 404, !.exc = "HTTPException",
                       !.detail = "User not found"]
        ELSE IF current_user = 0 THEN credentials_exception(r)
        ELSE IF ~db[current_user].activated
             THEN [r EXCEPT !.status = 400, !.exc = "HTTPException",
                            !.detail = "Inactive user"]
             ELSE r

\* mutant: the activated flag of the user named by the unverified sub is
\* consulted before the token is verified
get_current_active_user_GateFirst(r, db, token, now) ==
    LET named == IF token.wellformed /\ token.sub # None
                 THEN get_user(db, token.sub) ELSE 0
    IN  IF named # 0 /\ ~db[named].activated
        THEN [r EXCEPT !.status = 400, !.exc = "HTTPException",
                       !.detail = "Inactive user"]
        ELSE IF get_current_user(db, token, now) = 0 THEN credentials_exception(r)
        ELSE r

\* the result of the dependency chain get_current_user, get_current_active_user:
\* the error response, or r itself (status still 0) when the user is active
get_current_active_user(r, db, token, now) ==
    LET current_user == get_current_user(db, token, now)
    IN  IF current_user = 0 THEN credentials_exception(r)
        ELSE IF ~db[current_user].activated
             THEN [r EXCEPT !.status = 400, !.exc = "HTTPException",
                            !.detail = "Inactive user"]
             ELSE r

(* --------------------------------- actions ----------------------------- *)

\* the threadpool threads that run the synchronous handler register_user
Threads == {"t1", "t2"}

NoRow == UserModel(None, None, get_password_hash(None, None), None, None)

\* a thread with no request: pc is where the thread stands in register_user,
\* row its UserModel object, id the primary key the commit gave it
IdleWorker ==
    [pc |-> "idle", row |-> NoRow, password |-> None, id |-> 0,
     secret_key |-> None, client_id |-> None]

Init ==
    /\ users = <<>>
    /\ clock = 0
    /\ resp = Blank
    /\ regPassword = <<>>
    /\ workers = [t \in Threads |-> IdleWorker]

Idle == resp.op = None

\* POST /register
register_user(username, email, password, salt, secret_key, client_id) ==
    LET user == UserModel(username, email, get_password_hash(password, salt),
                          secret_key, client_id)
        r == [Blank EXCEPT !.op = "register", !.username = username, !.email = email,
                           !.password = password]
    IN  /\ Idle
        /\ IF UniqueViolation(users, user)
           THEN /\ resp' = [r EXCEPT !.status = 500, !.exc = "IntegrityError",
                                     !.detail = "Internal Server Error"]
                /\ UNCHANGED <<users, regPassword>>
           ELSE /\ users' = Append(users, user)
                /\ regPassword' = Append(regPassword, password)
                /\ resp' = [r EXCEPT !.status = 200, !.user = user.username,
                                     !.user_email = user.email,
                                     !.secret_key = user.secret_key,
                                     !.client_id = user.client_id]
        /\ UNCHANGED <<clock, workers>>

\* mutant: an unknown username is answered differently from a wrong password
login_response_Distinguish(db, username, password, now) ==
    LET user == authenticate_user(db, username, password)
        r == [Blank EXCEPT !.op = "login", !.username = username, !.password = password]
    IN  IF get_user(db, username) = 0
        THEN [r EXCEPT !.status = 404, !.exc = "HTTPException",
                       !.detail = "User not found"]
        ELSE IF user = 0
        THEN [r EXCEPT !.status = 401, !.exc = "HTTPException",
                       !.detail = "Incorrect username or password",
                       !.authenticate = "Bearer"]
        ELSE [r EXCEPT !.status = 200,
                       !.access_token =
                           create_access_token(db[user].username, db[user].secret_key,
                               <<timedelta(ACCESS_TOKEN_EXPIRE_MINUTES)>>, now),
                       !.token_type = "bearer"]

\* mutant: login refuses a user whose account is not activated
login_response_ActiveOnly(db, username, password, now) ==
    LET user == authenticate_user(db, username, password)
        r == [Blank EXCEPT !.op = "login", !.username = username, !.password = password]
    IN  IF user = 0
        THEN [r EXCEPT !.status = 401, !.exc = "HTTPException",
                       !.detail = "Incorrect username or password",
                       !.authenticate = "Bearer"]
        ELSE IF ~db[user].activated
        THEN [r EXCEPT !.status = 400, !.exc = "HTTPException",
                       !.detail = "Inactive user"]
        ELSE [r EXCEPT !.status = 200,
                       !.access_token =
                           create_access_token(db[user].username, db[user].secret_key,
                               <<timedelta(ACCESS_TOKEN_EXPIRE_MINUTES)>>, now),
                       !.token_type = "bearer"]

\* the body of login_for_access_token: the request and its response
login_response(db, username, password, now) ==
    LET user == authenticate_user(db, username, password)
        r == [Blank EXCEPT !.op = "login", !.username = username, !.password = password]
    IN  IF user = 0
        THEN [r EXCEPT !.status = 401, !.exc = "HTTPException",
                       !.detail = "Incorrect username or password",
                       !.authenticate = "Bearer"]
        ELSE [r EXCEPT !.status = 200,
                       !.access_token =
                           create_access_token(db[user].username, db[user].secret_key,
                               <<timedelta(ACCESS_TOKEN_EXPIRE_MINUTES)>>, now),
                       !.token_type = "bearer"]

\* POST /token
login_for_access_token(username, password) ==
    /\ Idle
    /\ resp' = login_response(users, username, password, clock)
    /\ UNCHANGED <<users, clock, regPassword, workers>>

\* mutant: the new token is given the expiry of the login flow
retrieve_access_token_LoginExpiry(token) ==
    LET r == [Blank EXCEPT !.op = "retrieve", !.reqtoken = token]
        dep == get_current_active_user(r, users, token, clock)
        user == get_user(users, token.sub)
    IN  /\ Idle
        /\ IF dep.status # 0
           THEN resp' = dep
           ELSE resp' = [r EXCEPT !.status = 200, !.isSuccessful = TRUE,
                                  !.message = "Token retrieved successfully",
                                  !.access_token =
                                      create_access_token(users[user].username,
                                          users[user].secret_key,
                                          <<timedelta(ACCESS_TOKEN_EXPIRE_MINUTES)>>, clock)]
        /\ UNCHANGED <<users, clock, regPassword, workers>>

\* GET /retrieve-access-token
retrieve_access_token(token) ==
    LET r == [Blank EXCEPT !.op = "retrieve", !.reqtoken = token]
        dep == get_current_active_user(r, users, token, clock)
        user == get_user(users, token.sub)
    IN  /\ Idle
        /\ IF dep.status # 0
           THEN resp' = dep
           ELSE resp' = [r EXCEPT !.status = 200, !.isSuccessful = TRUE,
                                  !.message = "Token retrieved successfully",
                                  !.access_token =
                                      create_access_token(users[user].username,
                                          users[user].secret_key, NoDelta, clock)]
        /\ UNCHANGED <<users, clock, regPassword, workers>>

\* the HTTPException built by account_activation
account_activation_exception(r) ==
    [r EXCEPT !.status = 401, !.exc = "HTTPException",
              !.detail = "Could not validate credentials", !.authenticate = "Bearer"]

\* mutant: the token is decoded once, without verification
account_activation_user_Unverified(db, token, now) ==
    IF ~token.wellformed THEN 0
    ELSE IF token.sub = None THEN 0
    ELSE get_user(db, token.sub)

\* the try block of account_activation: 0 stands for the raised exception,
\* otherwise the user's row
account_activation_user(db, token, now) ==
    IF ~token.wellformed THEN 0
    ELSE IF token.sub = None THEN 0
    ELSE LET user == get_user(db, token.sub)
         IN  IF user = 0 THEN 0
             ELSE IF ~jwt_decode_ok(token, db[user].secret_key, now) THEN 0
             ELSE user

\* the caller who has just logged in may present the access token received
FollowsLogin(token) ==
    resp.op = "login" /\ resp.status = 200 /\ token = resp.access_token

\* mutant: success is reported but the flag is not written
account_activation_NoCommit(token) ==
    LET r == [Blank EXCEPT !.op = "activate", !.reqtoken = token,
                           !.username = resp.username, !.password = resp.password]
        user == account_activation_user(users, token, clock)
    IN  /\ Idle \/ FollowsLogin(token)
        /\ IF user = 0
           THEN resp' = account_activation_exception(r)
           ELSE resp' = [r EXCEPT !.status = 200, !.isSuccessful = TRUE,
                                  !.message = "Account activated successfully"]
        /\ UNCHANGED <<users, clock, regPassword, workers>>

\* mutant: the flag is flipped instead of set
account_activation_Toggle(token) ==
    LET r == [Blank EXCEPT !.op = "activate", !.reqtoken = token,
                           !.username = resp.username, !.password = resp.password]
        user == account_activation_user(users, token, clock)
    IN  /\ Idle \/ FollowsLogin(token)
        /\ IF user = 0
           THEN /\ resp' = account_activation_exception(r)
                /\ UNCHANGED users
           ELSE /\ users' = [users EXCEPT ![user].activated = ~@]
                /\ resp' = [r EXCEPT !.status = 200, !.isSuccessful = TRUE,
                                     !.message = "Account activated successfully"]
        /\ UNCHANGED <<clock, regPassword, workers>>

\* mutant: the update is written to every row of the table
account_activation_EveryRow(token) ==
    LET r == [Blank EXCEPT !.op = "activate", !.reqtoken = token,
                           !.username = resp.username, !.password = resp.password]
        user == account_activation_user(users, token, clock)
    IN  /\ Idle \/ FollowsLogin(token)
        /\ IF user = 0
           THEN /\ resp' = account_activation_exception(r)
                /\ UNCHANGED users
           ELSE /\ users' = [i \in 1..Len(users) |-> [users[i] EXCEPT !.activated = TRUE]]
                /\ resp' = [r EXCEPT !.status = 200, !.isSuccessful = TRUE,
                                     !.message = "Account activated successfully"]
        /\ UNCHANGED <<clock, regPassword, workers>>

\* mutant: activation issues the user a new secret_key
account_activation_Rotate(token) ==
    LET r == [Blank EXCEPT !.op = "activate", !.reqtoken = token,
                           !.username = resp.username, !.password = resp.password]
        user == account_activation_user(users, token, clock)
    IN  /\ Idle \/ FollowsLogin(token)
        /\ IF user = 0
           THEN /\ resp' = account_activation_exception(r)
                /\ UNCHANGED users
           ELSE /\ users' = [users EXCEPT ![user].activated = TRUE,
                                          ![user].secret_key =
                                              CHOOSE k \in SecretKeys : k # users[user].secret_key]
                /\ resp' = [r EXCEPT !.status = 200, !.isSuccessful = TRUE,
                                     !.message = "Account activated successfully"]
        /\ UNCHANGED <<clock, regPassword, workers>>

\* POST /account-activation
account_activation(token) ==
    LET r == [Blank EXCEPT !.op = "activate", !.reqtoken = token,
                           !.username = resp.username, !.password = resp.password]
        user == account_activation_user(users, token, clock)
    IN  /\ Idle \/ FollowsLogin(token)
        /\ IF user = 0
           THEN /\ resp' = account_activation_exception(r)
                /\ UNCHANGED users
           ELSE /\ users' = [users EXCEPT ![user].activated = TRUE]
                /\ resp' = [r EXCEPT !.status = 200, !.isSuccessful = TRUE,
                                     !.message = "Account activated successfully"]
        /\ UNCHANGED <<clock, regPassword, workers>>

\* mutant: the returned row is sent whole
User_Unfiltered(r, row) ==
    [r EXCEPT !.status = 200, !.user = row.username, !.user_email = row.email,
              !.activated = row.activated, !.secret_key = row.secret_key,
              !.client_id = row.client_id]

\* response_model=User: of the returned row only the fields of User are sent
User(r, row) ==
    [r EXCEPT !.status = 200, !.user = row.username, !.user_email = row.email,
              !.activated = row.activated]

\* GET /users/me/
read_users_me(token) ==
    LET r == [Blank EXCEPT !.op = "whoami", !.reqtoken = token]
        dep == get_current_active_user(r, users, token, clock)
        user == get_user(users, token.sub)
    IN  /\ Idle
        /\ IF dep.status # 0
           THEN resp' = dep
           ELSE resp' = User(r, users[user])
        /\ UNCHANGED <<users, clock, regPassword, workers>>

\* the request ends: the response is sent and get_db closes the session
get_db ==
    /\ ~Idle
    /\ resp' = Blank
    /\ UNCHANGED <<users, clock, regPassword, workers>>

\* time passes between requests
Tick ==
    /\ Idle
    /\ \E t \in Instants : t > clock /\ clock' = t
    /\ UNCHANGED <<users, resp, regPassword, workers>>

Next ==
    \/ \E u \in Usernames, e \in Emails, p \in Passwords, s \in Salts,
          k \in SecretKeys, c \in ClientIds : register_user(u, e, p, s, k, c)
    \/ \E u \in Usernames, p \in Passwords : login_for_access_token(u, p)
    \/ \E t \in Tokens : retrieve_access_token(t)
    \/ \E t \in Tokens : account_activation(t)
    \/ \E t \in Tokens : read_users_me(t)
    \/ get_db
    \/ Tick

Spec == Init /\ [][Next]_vars

(* ------------------- create_access_token as a function ----------------- *)

\* create_access_token called for a stored user with any expires_delta
IssueToken(i, expires_delta) ==
    /\ Idle
    /\ i \in 1..Len(users)
    /\ resp' = [Blank EXCEPT !.op = "issue", !.status = 200,
                             !.username = users[i].username,
                             !.delta = expires_delta, !.at = clock,
                             !.access_token =
                                 create_access_token(users[i].username,
                                     users[i].secret_key, expires_delta, clock)]
    /\ UNCHANGED <<users, clock, regPassword, workers>>

\* the caller keeps the token while time passes
Hold ==
    /\ resp.op = "issue"
    /\ \E t \in Instants : t > clock /\ clock' = t
    /\ UNCHANGED <<users, resp, regPassword, workers>>

\* the kept token is passed to get_current_user
VerifyIssued ==
    LET user == get_current_user(users, resp.access_token, clock)
    IN  /\ resp.op = "issue"
        /\ IF user = 0
           THEN resp' = credentials_exception(
                            [resp EXCEPT !.op = "verify", !.reqtoken = resp.access_token,
                                         !.access_token = Malformed])
           ELSE resp' = [resp EXCEPT !.op = "verify", !.reqtoken = resp.access_token,
                                     !.access_token = Malformed,
                                     !.user = users[user].username]
        /\ UNCHANGED <<users, clock, regPassword, workers>>

NextFn ==
    \/ Next
    \/ \E i \in 1..Cardinality(Usernames), d \in Deltas : IssueToken(i, d)
    \/ Hold
    \/ VerifyIssued

SpecFn == Init /\ [][NextFn]_vars

(* ---------------------- register_user, step by step -------------------- *)

\* a thread takes a request and builds its UserModel object
register_user_build(t, username, email, password, salt, secret_key, client_id) ==
    /\ workers[t].pc = "idle"
    /\ workers' = [workers EXCEPT ![t] =
            [IdleWorker EXCEPT !.pc = "built", !.password = password,
                !.row = UserModel(username, email, get_password_hash(password, salt),
                                  secret_key, client_id)]]
    /\ UNCHANGED <<users, clock, resp, regPassword>>

\* db.add(user); db.commit(): the insert is one transaction of the store, which
\* raises IntegrityError when a unique column would repeat
register_user_commit(t) ==
    /\ workers[t].pc = "built"
    /\ IF UniqueViolation(users, workers[t].row)
       THEN /\ workers' = [workers EXCEPT ![t].pc = "IntegrityError"]
            /\ UNCHANGED <<users, regPassword>>
       ELSE /\ users' = Append(users, workers[t].row)
            /\ regPassword' = Append(regPassword, workers[t].password)
            /\ workers' = [workers EXCEPT ![t].pc = "committed", ![t].id = Len(users) + 1]
    /\ UNCHANGED <<clock, resp>>

\* db.refresh(user) reads the thread's row again; the response is built from it
register_user_return(t) ==
    /\ workers[t].pc = "committed"
    /\ workers' = [workers EXCEPT ![t].pc = "returned",
                                  ![t].row = users[workers[t].id],
                                  ![t].secret_key = users[workers[t].id].secret_key,
                                  ![t].client_id = users[workers[t].id].client_id]
    /\ UNCHANGED <<users, clock, resp, regPassword>>

NextConc ==
    \/ \E t \in Threads, u \in Usernames, e \in Emails, p \in Passwords, s \in Salts,
          k \in SecretKeys, c \in ClientIds : register_user_build(t, u, e, p, s, k, c)
    \/ \E t \in Threads : register_user_commit(t)
    \/ \E t \in Threads : register_user_return(t)

SpecConc == Init /\ [][NextConc]_vars

(* --------------------------------- claims ------------------------------ *)

\* the requests that run the two-phase verification on resp.reqtoken
Verifying == resp.op \in {"whoami", "retrieve", "activate"}

\* row i is the one user for whom token t is valid at time now: t names i, is
\* signed over its own claims with i's key, and is not expired
ValidFor(db, t, i, now) ==
    /\ t.wellformed
    /\ t.alg = "HS256"
    /\ t.sub = db[i].username
    /\ t.sig = [key |-> db[i].secret_key, sub |-> t.sub, exp |-> t.exp]
    /\ (t.exp = NoExp \/ now < t.exp[1] * TicksPerSecond)

\* the response gives no user, no token and no success flag
ResolvesNobody ==
    /\ resp.user = None
    /\ resp.access_token = Malformed
    /\ ~resp.isSuccessful

\* C1: a token that names user B and was signed with the key of another user A
\* is rejected with 401 by every request that verifies it and resolves to
\* nobody, in every store state and at every instant.
C1_CrossUserForgeryRejected ==
    \A a, b \in 1..Len(users) :
        (/\ a # b
         /\ Verifying
         /\ resp.reqtoken.sub = users[b].username
         /\ resp.reqtoken.sig.key = users[a].secret_key)
            => (resp.status = 401 /\ ResolvesNobody)

C1_Witness ==
    /\ Len(users) = 2
    /\ resp.op = "whoami"
    /\ resp.reqtoken.sub = users[2].username
    /\ resp.reqtoken.sig = Sign(users[1].secret_key, users[2].username, resp.reqtoken.exp)
    /\ users[2].activated
    /\ resp.status = 401

\* C2: a token issued for a stored user with an expires_delta > 0 and verified
\* before its exp resolves to exactly that user.
C2_IssueVerifyRoundTrip ==
    (/\ resp.op = "verify"
     /\ resp.delta # NoDelta
     /\ resp.delta[1] > 0
     /\ clock < resp.reqtoken.exp[1] * TicksPerSecond)
        => (resp.status = 200 /\ resp.user = resp.username)

C2_Witness ==
    /\ resp.op = "verify"
    /\ resp.delta = <<timedelta(30)>>
    /\ clock > resp.at
    /\ resp.status = 200
    /\ resp.user = resp.username

\* C3: a token issued with a negative expires_delta, and any correctly signed
\* token presented after its exp, is rejected with 401 and resolves to nobody.
C3_ExpiryEnforced ==
    /\ (resp.op = "verify" /\ resp.delta # NoDelta /\ resp.delta[1] < 0)
          => (resp.status = 401 /\ ResolvesNobody)
    /\ ((resp.op = "verify" \/ Verifying)
          /\ resp.reqtoken.exp # NoExp
          /\ resp.reqtoken.exp[1] * TicksPerSecond < clock)
          => (resp.status = 401 /\ ResolvesNobody)

C3_Witness ==
    /\ resp.op = "verify"
    /\ resp.delta = <<timedelta(30)>>
    /\ resp.reqtoken.exp[1] * TicksPerSecond < clock
    /\ resp.status = 401

\* C4: a stored user authenticates with exactly the password given at
\* registration and an unknown username never does; a failed login answers 401
\* with no token, a successful one a token with sub = username signed with the
\* user's stored secret_key.
C4_LoginCorrect ==
    /\ \A u \in Usernames, p \in Passwords :
            LET i == get_user(users, u)
            IN  IF i = 0
                THEN authenticate_user(users, u, p) = 0
                ELSE /\ authenticate_user(users, u, p) \in {0, i}
                     /\ authenticate_user(users, u, p) = i <=> p = regPassword[i]
    /\ resp.op = "login" =>
            LET i == get_user(users, resp.username)
            IN  IF i # 0 /\ resp.password = regPassword[i]
                THEN /\ resp.status = 200
                     /\ resp.access_token.sub = resp.username
                     /\ resp.access_token.sig =
                            Sign(users[i].secret_key, resp.username, resp.access_token.exp)
                ELSE /\ resp.status = 401
                     /\ resp.access_token = Malformed

C4_Witness ==
    /\ Len(users) = 2
    /\ resp.op = "login"
    /\ resp.username = users[2].username
    /\ resp.password = regPassword[2]
    /\ regPassword[1] # regPassword[2]
    /\ resp.status = 200

\* C5: whoami and retrieve-token answer 401 to a token valid for no stored
\* user whatever the activated flags, 400 with no user data and no token to a
\* token valid for a user who is not activated, and 200 only to a token valid
\* for an activated user.
C5_ActivationGateOrder ==
    resp.op \in {"whoami", "retrieve"} =>
        /\ (\A i \in 1..Len(users) : ~ValidFor(users, resp.reqtoken, i, clock))
              => resp.status = 401 /\ ResolvesNobody
        /\ \A i \in 1..Len(users) :
              ValidFor(users, resp.reqtoken, i, clock) =>
                  IF users[i].activated
                  THEN resp.status = 200
                  ELSE resp.status = 400 /\ resp.detail = "Inactive user" /\ ResolvesNobody

C5_Witness ==
    /\ resp.op = "retrieve"
    /\ resp.status = 400
    /\ \E i \in 1..Len(users) : ValidFor(users, resp.reqtoken, i, clock)

\* C6: account activation with a token valid for stored user u reports
\* success and leaves u activated: the flag goes from false to true when it
\* was false, and nothing changes when it was already true.
C6_ActivationEffect ==
    [][(resp.op # "activate" /\ resp'.op = "activate") =>
          \A i \in 1..Len(users) :
              ValidFor(users, resp'.reqtoken, i, clock) =>
                  /\ resp'.status = 200
                  /\ resp'.isSuccessful
                  /\ users'[i].activated
                  /\ IF users[i].activated
                     THEN users' = users
                     ELSE users' = [users EXCEPT ![i].activated = TRUE]]_vars

C6_Witness ==
    /\ resp.op = "activate"
    /\ resp.status = 200
    /\ \E i \in 1..Len(users) :
          ValidFor(users, resp.reqtoken, i, clock) /\ users[i].activated

\* C7: a row is created with activated = false, and the flag of a row turns
\* true only in a successful account activation whose token names that user,
\* is signed with that user's stored secret_key and is not expired.
C7_ActivationProvenance ==
    [][\A i \in 1..Len(users') :
          /\ i > Len(users) => ~users'[i].activated
          /\ (i <= Len(users) /\ users'[i].activated /\ ~users[i].activated)
                => /\ resp'.op = "activate"
                   /\ resp'.status = 200
                   /\ ValidFor(users, resp'.reqtoken, i, clock)]_vars

C7_Witness ==
    /\ Len(users) = 2
    /\ users[1].activated
    /\ ~users[2].activated
    /\ resp.op = "whoami"
    /\ resp.status = 200

\* the lifecycle state of a username
Lifecycle(u) ==
    IF get_user(users, u) = 0 THEN "Unregistered"
    ELSE IF users[get_user(users, u)].activated THEN "Activated"
    ELSE "Registered"

\* C8: a username only moves Unregistered -> Registered -> Activated: a stored
\* username is never removed and an activated flag never turns false again.
C8_LifecycleMonotone ==
    [][\A u \in Usernames :
          <<Lifecycle(u), Lifecycle(u)'>> \in
              {<<"Unregistered", "Unregistered">>, <<"Unregistered", "Registered">>,
               <<"Registered", "Registered">>, <<"Registered", "Activated">>,
               <<"Activated", "Activated">>}]_vars

C8_Witness ==
    /\ Lifecycle("alice") = "Activated"
    /\ Lifecycle("bob") = "Registered"
    /\ resp.op = "activate"
    /\ resp.status = 200
    /\ resp.reqtoken.sub = "alice"

\* C9: a registration whose username or email belongs to a stored user fails
\* with a 409 conflict, stores nothing, returns no secret_key or client_id and
\* leaves the stored rows unchanged.
C9_DuplicateIsConflict ==
    [][(/\ Idle
        /\ resp'.op = "register"
        /\ \E i \in 1..Len(users) :
              users[i].username = resp'.username \/ users[i].email = resp'.email)
          => /\ resp'.status = 409
             /\ users' = users
             /\ resp'.secret_key = None
             /\ resp'.client_id = None]_vars

\* C10: no two rows share a username, an email, a secret_key or a client_id.
C10_Unique ==
    \A i, j \in 1..Len(users) :
        i # j =>
            /\ users[i].username # users[j].username
            /\ users[i].email # users[j].email
            /\ users[i].secret_key # users[j].secret_key
            /\ users[i].client_id # users[j].client_id

C10_Witness ==
    /\ Len(users) = 2
    /\ resp.op = "register"
    /\ resp.status = 500

\* the text fields of a response body (a token carries a signature made with
\* a key, not the key)
BodyTexts(r) ==
    {r.user, r.user_email, r.secret_key, r.client_id, r.token_type, r.message, r.detail}

\* C11: a response carries a secret_key only in the register_user step that
\* creates the row with that key, and it is that row's key; the responses of
\* login, retrieve-token, activation and whoami carry no stored user's
\* secret_key in any field.
C11_SecretKeyRevealedOnce ==
    [][resp' # resp =>
          /\ resp'.secret_key # None =>
                /\ resp'.op = "register"
                /\ resp'.status = 200
                /\ Len(users') = Len(users) + 1
                /\ users'[Len(users')].username = resp'.username
                /\ users'[Len(users')].secret_key = resp'.secret_key
          /\ resp'.op \in {"login", "retrieve", "activate", "whoami"} =>
                \A i \in 1..Len(users') : users'[i].secret_key \notin BodyTexts(resp')]_vars

C11_Witness ==
    /\ Len(users) = 2
    /\ resp.op = "whoami"
    /\ resp.status = 200
    /\ resp.user = users[2].username
    /\ users[2].secret_key \notin BodyTexts(resp)

\* what the caller sees of a response: everything but the echo of the request
Response(r) ==
    [r EXCEPT !.username = None, !.email = None, !.password = None,
              !.reqtoken = Malformed, !.delta = NoDelta, !.at = 0]

\* C12: a failed login leaves the store unchanged and answers exactly what
\* any other failing login answers, in the same store and in the empty store
\* (where every username is unknown): same status, detail, headers and body,
\* whether the username is unknown or the password wrong.
C12_LoginFailuresAlike ==
    [][(resp' # resp /\ resp'.op = "login" /\ resp'.status # 200) =>
          /\ users' = users
          /\ \A u \in Usernames, p \in Passwords :
                /\ Response(resp') = Response(login_response(<<>>, u, p, 0))
                /\ authenticate_user(users, u, p) = 0
                      => Response(resp') = Response(login_response(users, u, p, clock))]_vars

C12_Witness ==
    /\ Len(users) = 1
    /\ resp.op = "login"
    /\ resp.username = users[1].username
    /\ resp.password # regPassword[1]
    /\ resp.status = 401
    /\ resp.detail = login_response(users, "bob", "pw123", clock).detail
    /\ users[1].username = "alice"

\* C13: account activation succeeds exactly when get_current_user resolves a
\* user for the same token, store and instant; it then activates that user, and
\* otherwise answers what a request rejected by get_current_user is answered
\* and writes nothing.
C13_ActivationAcceptsWhatVerifyAccepts ==
    [][(resp.op # "activate" /\ resp'.op = "activate") =>
          LET current_user == get_current_user(users, resp'.reqtoken, clock)
          IN  IF current_user = 0
              THEN /\ users' = users
                   /\ Response(resp') =
                          Response(credentials_exception([Blank EXCEPT !.op = "activate"]))
              ELSE /\ resp'.status = 200
                   /\ resp'.isSuccessful
                   /\ users' = [users EXCEPT ![current_user].activated = TRUE]]_vars

C13_Witness ==
    /\ Len(users) = 2
    /\ resp.op = "activate"
    /\ resp.status = 401
    /\ resp.reqtoken.sub = users[2].username
    /\ resp.reqtoken.exp # NoExp
    /\ resp.reqtoken.sig = Sign(users[2].secret_key, users[2].username, resp.reqtoken.exp)
    /\ get_current_user(users, resp.reqtoken, clock) = 0

\* token t names row i of the store, is signed with its stored key, and its
\* exp claim (whole seconds) is the second of instant expire
IssuedFor(t, i, expire) ==
    /\ t.wellformed
    /\ t.sub = users[i].username
    /\ t.exp = <<expire \div TicksPerSecond>>
    /\ t.sig = [key |-> users[i].secret_key, sub |-> t.sub, exp |-> t.exp]

\* C14: the token of a successful login expires 30 minutes after its issue,
\* the token of a successful retrieve-token 15 minutes after its issue; both
\* name the user and are signed with the user's stored secret_key.
C14_ExpiryAsymmetry ==
    /\ (resp.op = "login" /\ resp.status = 200) =>
            IssuedFor(resp.access_token, get_user(users, resp.username),
                      clock + 30 * Minute)
    /\ (resp.op = "retrieve" /\ resp.status = 200) =>
            IssuedFor(resp.access_token, get_user(users, resp.reqtoken.sub),
                      clock + 15 * Minute)

C14_Witness ==
    /\ resp.op = "retrieve"
    /\ resp.status = 200
    /\ clock % TicksPerSecond # 0
    /\ resp.access_token.exp[1] * TicksPerSecond < clock + 30 * Minute

\* C15: create_access_token gives every expires_delta that is passed, be it
\* positive, zero or negative, the exp of issue time + expires_delta, and the
\* 15-minute fallback only to a call that passes none.
C15_EverySuppliedDeltaHonoured ==
    resp.op = "issue" =>
        IF resp.delta # NoDelta
        THEN resp.access_token.exp = <<(resp.at + resp.delta[1]) \div TicksPerSecond>>
        ELSE resp.access_token.exp = <<(resp.at + 15 * Minute) \div TicksPerSecond>>

\* the thread's call has passed its commit / has succeeded
Committing(t) == workers[t].pc \in {"IntegrityError", "committed", "returned"}
Succeeded(t) == workers[t].pc \in {"committed", "returned"}

\* C16: of two register_user calls that run concurrently with the same username
\* or the same email at most one succeeds and the other fails on the store's
\* uniqueness constraint; once both have committed the store holds exactly one
\* row with that username or email, the winner's, and the secret_key returned
\* to the winner is that row's.
C16_ConcurrentRegistrationsSerialized ==
    \A a, b \in Threads :
        (/\ a # b
         /\ workers[a].pc # "idle"
         /\ workers[b].pc # "idle"
         /\ \/ workers[a].row.username = workers[b].row.username
            \/ workers[a].row.email = workers[b].row.email)
            => /\ ~(Succeeded(a) /\ Succeeded(b))
               /\ (Committing(a) /\ Committing(b)) =>
                     (Succeeded(a) \/ Succeeded(b))
               /\ (Succeeded(a) /\ Committing(b)) =>
                     /\ workers[b].pc = "IntegrityError"
                     /\ Cardinality({i \in 1..Len(users) :
                            \/ users[i].username \in
                                  {workers[a].row.username, workers[b].row.username}
                            \/ users[i].email \in
                                  {workers[a].row.email, workers[b].row.email}}) = 1
                     /\ users[workers[a].id].username = workers[a].row.username
                     /\ users[workers[a].id].email = workers[a].row.email
                     /\ workers[a].pc = "returned" =>
                            workers[a].secret_key = users[workers[a].id].secret_key

C16_Witness ==
    /\ workers["t1"].pc = "IntegrityError"
    /\ workers["t2"].pc = "returned"
    /\ workers["t1"].row.username = workers["t2"].row.username
    /\ workers["t1"].row.email # workers["t2"].row.email
    /\ workers["t1"].row.secret_key # workers["t2"].row.secret_key
    /\ workers["t1"].row.client_id # workers["t2"].row.client_id
    /\ Len(users) = 1

\* the columns of a row that are written at registration only
Immutable(row) ==
    <<row.username, row.email, row.hashed_password, row.secret_key, row.client_id>>

\* C17: a stored row keeps its username, email, hashed_password, secret_key
\* and client_id in every step; login, token verification, whoami, token
\* retrieval and token issue leave the whole store unchanged; a failed account
\* activation leaves the whole store unchanged; a successful one changes only
\* the activated flag of the user the token names.
C17_Frame ==
    [][/\ Len(users') >= Len(users)
       /\ \A i \in 1..Len(users) : Immutable(users'[i]) = Immutable(users[i])
       /\ (resp'.op # resp.op /\ resp'.op \in {"login", "verify", "whoami", "retrieve", "issue"})
             => users' = users
       /\ (resp.op # "activate" /\ resp'.op = "activate") =>
             IF resp'.status # 200
             THEN users' = users
             ELSE \E i \in 1..Len(users) :
                     /\ users[i].username = resp'.reqtoken.sub
                     /\ \A j \in 1..Len(users) :
                           j # i => users'[j] = users[j]
                     /\ users'[i] = [users[i] EXCEPT !.activated = TRUE]
                     /\ Len(users') = Len(users)]_vars

C17_Witness ==
    /\ resp.op = "activate"
    /\ resp.status = 200
    /\ Len(users) = 2
    /\ \E i, j \in 1..Len(users) :
          /\ users[i].username = resp.reqtoken.sub
          /\ users[i].activated
          /\ ~users[j].activated

\* C18: a token that get_current_user accepts for user i is accepted for the
\* same user after every step of the service (registrations, logins,
\* activations, newer tokens, passing time) that ends before the token's exp.
C18_NoRevocation ==
    [][\A tok \in Tokens :
          LET user == get_current_user(users, tok, clock)
          IN  (/\ user # 0
               /\ tok.exp = NoExp \/ clock' < tok.exp[1] * TicksPerSecond)
                  => get_current_user(users', tok, clock') = user]_vars

C18_Witness ==
    /\ resp.op = "whoami"
    /\ resp.status = 200
    /\ resp.reqtoken.exp # NoExp
    /\ clock >= 15 * Minute
    /\ Len(users) = 2
    /\ \A i \in 1..Len(users) : users[i].activated

\* the token fails before a key is looked at: it cannot be parsed, carries no
\* sub, or its sub names no row of db
EarlyFailure(db, t) ==
    \/ ~t.wellformed
    \/ t.sub = None
    \/ \A i \in 1..Len(db) : db[i].username # t.sub

\* the token names row i of db but is not signed over its claims with i's key
SignatureMismatch(db, t) ==
    /\ t.wellformed
    /\ \E i \in 1..Len(db) :
          /\ db[i].username = t.sub
          /\ t.sig # [key |-> db[i].secret_key, sub |-> t.sub, exp |-> t.exp]

\* the 401 answer to operation op
Unauthorized(op) ==
    [Blank EXCEPT !.op = op, !.status = 401, !.exc = "HTTPException",
                  !.detail = "Could not validate credentials",
                  !.authenticate = "Bearer"]

\* C19: whoami, token retrieval and account activation answer a token that
\* cannot be parsed, has no sub, or names no stored user with the same 401
\* response as a token whose signature does not match, resolve no user and
\* leave the store unchanged.
C19_EarlyFailuresUnauthorized ==
    [][(/\ resp'.op # resp.op
        /\ resp'.op \in {"whoami", "retrieve", "activate"}
        /\ EarlyFailure(users, resp'.reqtoken) \/ SignatureMismatch(users, resp'.reqtoken))
          => /\ users' = users
             /\ Response(resp') = Unauthorized(resp'.op)
             /\ get_current_user(users, resp'.reqtoken, clock) = 0
             /\ account_activation_user(users, resp'.reqtoken, clock) = 0]_vars

C19_Witness ==
    /\ resp.op = "activate"
    /\ resp.status = 401
    /\ resp.reqtoken.wellformed
    /\ resp.reqtoken.sub # None
    /\ Len(users) = 1
    /\ users[1].username # resp.reqtoken.sub
    /\ resp.reqtoken.sig.key = users[1].secret_key

\* C20: a stored user who is not activated logs in with the registered
\* password and gets an ordinary bearer token that is valid for that user; an
\* account activation that presents the token of the login just answered
\* succeeds and leaves that user activated.
C20_SelfActivationByLogin ==
    [][/\ \A i \in 1..Len(users) :
             ~users[i].activated =>
                 LET r == login_response(users, users[i].username, regPassword[i], clock)
                 IN  /\ r.status = 200
                     /\ r.token_type = "bearer"
                     /\ ValidFor(users, r.access_token, i, clock)
                     /\ account_activation_user(users, r.access_token, clock) = i
       /\ (/\ resp.op = "login"
           /\ resp.status = 200
           /\ resp'.op = "activate"
           /\ resp'.reqtoken = resp.access_token)
             => /\ resp'.status = 200
                /\ resp'.isSuccessful
                /\ \E i \in 1..Len(users) :
                      /\ users[i].username = resp.username
                      /\ regPassword[i] = resp.password
                      /\ users'[i].activated]_vars

C20_Witness ==
    /\ resp.op = "activate"
    /\ resp.status = 200
    /\ resp.password # None
    /\ \E i \in 1..Len(users) :
          /\ users[i].username = resp.username
          /\ regPassword[i] = resp.password
          /\ users[i].activated
          /\ resp.reqtoken =
                create_access_token(users[i].username, users[i].secret_key,
                    <<timedelta(ACCESS_TOKEN_EXPIRE_MINUTES)>>, clock)

====
